---- MODULE Spec2Model ----
(***************************************************************************)
(* Buffer & Overlay tool (streamlit_buffer_overlay_app.py).                *)
(*                                                                         *)
(* The Streamlit script is re-executed from its first line on every UI     *)
(* event.  The model keeps the widget state between reruns, and steps one  *)
(* rerun through the script: the two layer loads, the Run guard, the       *)
(* per-distance buffer/overlay loop and the results/export loop.           *)
(*                                                                         *)
(* Coordinates are integers in tenths of the CRS unit (0.1 degree for      *)
(* EPSG:4326, 0.1 m for the projected CRSs).  A geometry is a finite union *)
(* of closed discs [pts, r]: r = 0 is a (multi)point, pts = {} is the      *)
(* empty geometry.  Projections are linearised around 13 N.                *)
(*                                                                         *)
(* UI events are taken between reruns.  What the script cannot decide is   *)
(* an input of the step that meets it: the order of os.listdir, whether    *)
(* the OSM fetch, the geometry engine (union / buffer) and the shapefile   *)
(* write succeed.                                                          *)
(***************************************************************************)
EXTENDS Integers, Sequences, FiniteSets, TLC

\* ---------------------------------------------------------------- bounds
\* Longest list the user may leave in the "additional distances" multiselect.
MaxSel == 1

\* ------------------------------------------------------------------- CRS
WorkingEPSG == 32643
WebMercator == 3857
Geographic == 4326
\* gdf.crs is None (a shapefile without .prj)
NoCRS == 0
\* a declared CRS with no transformation to any EPSG code (engineering CRS)
LocalCRS == 1

\* tenths of a metre per tenth of a degree of longitude / latitude near 13 N
KE == 108510
KN == 110570
\* EPSG:3857 stretches ground lengths near 13 N by (MercDen + 1) / MercDen
MercDen == 40
FalseEasting == 5000000
FalseNorthingSouth == 100000000

IsUTM(e) == (e >= 32601 /\ e <= 32660) \/ (e >= 32701 /\ e <= 32760)

\* the EPSG codes pyproj resolves, as far as the model needs them
ValidEPSG(e) == e = Geographic \/ e = WebMercator \/ IsUTM(e)

CentralMeridian10(e) == (6 * (e % 100) - 183) * 10

FalseNorthing(e) == IF e > 32700 THEN FalseNorthingSouth ELSE 0

\* ground position: tenths of a metre east / north of (lon 0, lat 0)
ToGround(crs, p) ==
    IF crs = Geographic THEN <<p[1] * KE, p[2] * KN>>
    ELSE IF crs = WebMercator
         THEN <<p[1] - (p[1] \div (MercDen + 1)), p[2] - (p[2] \div (MercDen + 1))>>
    ELSE <<p[1] - FalseEasting + CentralMeridian10(crs) * KE, p[2] - FalseNorthing(crs)>>

FromGround(crs, g) ==
    IF crs = Geographic THEN <<g[1] \div KE, g[2] \div KN>>
    ELSE IF crs = WebMercator
         THEN <<g[1] + (g[1] \div MercDen), g[2] + (g[2] \div MercDen)>>
    ELSE <<g[1] + FalseEasting - CentralMeridian10(crs) * KE, g[2] + FalseNorthing(crs)>>

\* a length (a buffer radius) carried from one CRS to another
ProjectLen(src, dst, r) ==
    LET ground == IF src = Geographic THEN r * KE
                  ELSE IF src = WebMercator THEN r - (r \div (MercDen + 1))
                  ELSE r
    IN  IF dst = Geographic THEN ground \div KE
        ELSE IF dst = WebMercator THEN ground + (ground \div MercDen)
        ELSE ground

\* longitude / latitude (tenths of a degree) of a point of a layer
ToLonLat(crs, p) == FromGround(Geographic, ToGround(crs, p))

ProjectPoint(src, dst, p) == IF src = dst THEN p ELSE FromGround(dst, ToGround(src, p))

ProjectGeom(src, dst, g) ==
    IF src = dst THEN g
    ELSE [pts |-> {ProjectPoint(src, dst, p) : p \in g.pts},
          r |-> ProjectLen(src, dst, g.r)]

\* GeoDataFrame.to_crs(epsg=dst): raises on a naive layer, on a CRS without a
\* transformation and on an EPSG code pyproj does not know.
CanReproject(gdf, dst) == gdf.crs # NoCRS /\ gdf.crs # LocalCRS /\ ValidEPSG(dst)

to_crs(gdf, dst) ==
    [crs |-> dst,
     features |-> [i \in 1..Len(gdf.features) |->
                     [id |-> gdf.features[i].id,
                      geom |-> ProjectGeom(gdf.crs, dst, gdf.features[i].geom)]]]

\* -------------------------------------------------------------- geometry
EmptyGeom == [pts |-> {}, r |-> 0]
Pt(x, y) == [pts |-> {<<x, y>>}, r |-> 0]

Abs(n) == IF n < 0 THEN -n ELSE n

\* closed discs: two points at distance exactly r still meet
WithinDist(p, q, r) ==
    LET dx == Abs(p[1] - q[1])
        dy == Abs(p[2] - q[2])
    IN  dx <= r /\ dy <= r /\ dx * dx + dy * dy <= r * r

GeomIntersects(g, h) ==
    \E p \in g.pts : \E q \in h.pts : WithinDist(p, q, g.r + h.r)

\* GeoDataFrame.empty: no rows
IsEmpty(gdf) == Len(gdf.features) = 0

\* gdf.unary_union, kept as the collection of the member geometries
unary_union(gdf) == {gdf.features[i].geom : i \in 1..Len(gdf.features)}

UnionPoints(gdf) == UNION {g.pts : g \in unary_union(gdf)}

RECURSIVE SumCoord(_, _)
SumCoord(S, k) ==
    IF S = {} THEN 0
    ELSE LET p == CHOOSE q \in S : TRUE IN p[k] + SumCoord(S \ {p}, k)

\* unary_union.centroid of a collection of points; defined on a non-empty one
Centroid(gdf) ==
    LET P == UnionPoints(gdf)
    IN  <<SumCoord(P, 1) \div Cardinality(P), SumCoord(P, 2) \div Cardinality(P)>>

\* Python int(): truncation towards zero
Trunc(n, d) == IF n >= 0 THEN n \div d ELSE -((-n) \div d)

\* ------------------------------------------------------------ ensure_utm
NullLayer == [crs |-> NoCRS, features |-> <<>>]

UtmZone(lon10) == Trunc(lon10 + 1800, 60) + 1

UtmEpsg(c) == IF c[2] >= 0 THEN 32600 + UtmZone(c[1]) ELSE 32700 + UtmZone(c[1])

\* exc: the exception that leaves the function ("" when it returns);
\* tried: the EPSG code computed from the centroid; failed: the first to_crs raised
ensure_utm_no_fallback(gdf) ==
    IF UnionPoints(gdf) = {}
    THEN [exc |-> "ValueError", tried |-> 0, failed |-> FALSE, gdf_m |-> NullLayer, epsg |-> 0]
    ELSE LET epsg == UtmEpsg(Centroid(gdf))
         IN  IF CanReproject(gdf, epsg)
             THEN [exc |-> "", tried |-> epsg, failed |-> FALSE,
                   gdf_m |-> to_crs(gdf, epsg), epsg |-> epsg]
             ELSE [exc |-> "CRSError", tried |-> epsg, failed |-> TRUE,
                   gdf_m |-> NullLayer, epsg |-> 0]

ensure_utm(gdf) ==
    IF UnionPoints(gdf) = {}
    THEN [exc |-> "ValueError", tried |-> 0, failed |-> FALSE, gdf_m |-> NullLayer, epsg |-> 0]
    ELSE LET epsg == UtmEpsg(Centroid(gdf))
         IN  IF CanReproject(gdf, epsg)
             THEN [exc |-> "", tried |-> epsg, failed |-> FALSE,
                   gdf_m |-> to_crs(gdf, epsg), epsg |-> epsg]
             ELSE IF CanReproject(gdf, WebMercator)
             THEN [exc |-> "", tried |-> epsg, failed |-> TRUE,
                   gdf_m |-> to_crs(gdf, WebMercator), epsg |-> WebMercator]
             ELSE [exc |-> "CRSError", tried |-> epsg, failed |-> TRUE,
                   gdf_m |-> NullLayer, epsg |-> 0]

\* ----------------------------------------------------------- make_buffer
\* geos_ok: whether the geometry engine completes union and buffer (shapely
\* raises GEOSException or MemoryError otherwise).
\* buffered: the union / buffer lines were reached.
make_buffer(roads_gdf, distance_m, geos_ok) ==
    LET u == ensure_utm(roads_gdf)
    IN  IF u.exc # ""
        THEN [exc |-> u.exc, utm |-> u, buffered |-> FALSE, gdf |-> NullLayer]
        ELSE IF ~geos_ok
        THEN [exc |-> "GEOSException", utm |-> u, buffered |-> TRUE, gdf |-> NullLayer]
        ELSE LET dissolved == UnionPoints(u.gdf_m)
                 buf == [crs |-> u.gdf_m.crs,
                         features |-> <<[id |-> 0,
                                         geom |-> [pts |-> dissolved,
                                                   r |-> distance_m * 10]]>>]
             IN  [exc |-> "", utm |-> u, buffered |-> TRUE,
                  gdf |-> to_crs(buf, WorkingEPSG)]

\* -------------------------------------------- count_intersecting_parcels
IntersectsMask(parcels_gdf, buffer_gdf) ==
    [i \in 1..Len(parcels_gdf.features) |->
        \E h \in unary_union(buffer_gdf) :
            GeomIntersects(parcels_gdf.features[i].geom, h)]

RECURSIVE Mask(_, _)
Mask(feats, mask) ==
    IF feats = <<>> THEN <<>>
    ELSE IF Head(mask) THEN <<Head(feats)>> \o Mask(Tail(feats), Tail(mask))
         ELSE Mask(Tail(feats), Tail(mask))

RECURSIVE SumMask(_)
SumMask(mask) == IF mask = <<>> THEN 0
                 ELSE (IF Head(mask) THEN 1 ELSE 0) + SumMask(Tail(mask))

count_intersecting_parcels_all(parcels_gdf, buffer_gdf) ==
    [count |-> Len(parcels_gdf.features), sub |-> parcels_gdf]

count_intersecting_parcels(parcels_gdf, buffer_gdf) ==
    LET intersects == IntersectsMask(parcels_gdf, buffer_gdf)
    IN  [count |-> SumMask(intersects),
         sub |-> [crs |-> parcels_gdf.crs,
                  features |-> Mask(parcels_gdf.features, intersects)]]

\* ------------------------------------------------- layers a user may hold
\* Bengaluru, lon 77.5 lat 12.9, in the working CRS
A == FromGround(WorkingEPSG, ToGround(Geographic, <<775, 129>>))

\* two road vertices 200 m apart
RoadsUTM ==
    [crs |-> WorkingEPSG,
     features |-> <<[id |-> 1, geom |-> Pt(A[1], A[2])],
                    [id |-> 2, geom |-> Pt(A[1] + 2000, A[2])]>>]

\* parcels 50 m from the first vertex, 250 m from the second, 10 km away,
\* and one with an empty geometry
ParcelsUTM ==
    [crs |-> WorkingEPSG,
     features |-> <<[id |-> 11, geom |-> Pt(A[1] + 300, A[2] + 400)],
                    [id |-> 12, geom |-> Pt(A[1] + 4400, A[2] + 700)],
                    [id |-> 13, geom |-> Pt(A[1] + 100000, A[2])],
                    [id |-> 14, geom |-> EmptyGeom]>>]

LayerLL ==
    [crs |-> Geographic,
     features |-> <<[id |-> 21, geom |-> Pt(775, 129)],
                    [id |-> 22, geom |-> Pt(776, 129)]>>]

LayerSouth ==
    [crs |-> Geographic, features |-> <<[id |-> 31, geom |-> Pt(775, -10)]>>]

\* degrees written to a shapefile that has no .prj
LayerRaw ==
    [crs |-> NoCRS, features |-> <<[id |-> 41, geom |-> Pt(775, 129)]>>]

LayerLocal ==
    [crs |-> LocalCRS, features |-> <<[id |-> 51, geom |-> Pt(10, 10)]>>]

LayerEmpty == [crs |-> Geographic, features |-> <<>>]

\* ------------------------------------------------------ uploaded files
Shp(top, stem, layer) == [top |-> top, stem |-> stem, ext |-> "shp", layer |-> layer]
Side(top, stem, ext) == [top |-> top, stem |-> stem, ext |-> ext, layer |-> NullLayer]

Zip(members) == [ext |-> "zip", valid |-> TRUE, members |-> members, layer |-> NullLayer]
Doc(ext, layer) == [ext |-> ext, valid |-> TRUE, members |-> {}, layer |-> layer]
Broken(ext) == [ext |-> ext, valid |-> FALSE, members |-> {}, layer |-> NullLayer]

NoFile == "none"

FileIds ==
    {"roads.zip", "parcels.zip", "raw.zip", "nested.zip", "noshp.zip", "two.zip",
     "corrupt.zip", "ll.geojson", "south.json", "bad.json", "local.geojson",
     "empty.geojson", "roads.shp"}

File(id) ==
    CASE id = "roads.zip"     -> Zip({Shp(TRUE, "roads", RoadsUTM), Side(TRUE, "roads", "dbf"),
                                      Side(TRUE, "roads", "prj")})
      [] id = "parcels.zip"   -> Zip({Shp(TRUE, "parcels", ParcelsUTM),
                                      Side(TRUE, "parcels", "prj")})
      [] id = "raw.zip"       -> Zip({Shp(TRUE, "raw", LayerRaw), Side(TRUE, "raw", "dbf")})
      [] id = "nested.zip"    -> Zip({Shp(FALSE, "parcels", ParcelsUTM),
                                      Side(FALSE, "parcels", "prj")})
      [] id = "noshp.zip"     -> Zip({Side(TRUE, "parcels", "dbf")})
      [] id = "two.zip"       -> Zip({Shp(TRUE, "a", RoadsUTM), Shp(TRUE, "b", ParcelsUTM)})
      [] id = "corrupt.zip"   -> Broken("zip")
      [] id = "ll.geojson"    -> Doc("geojson", LayerLL)
      [] id = "south.json"    -> Doc("json", LayerSouth)
      [] id = "bad.json"      -> Broken("json")
      [] id = "local.geojson" -> Doc("geojson", LayerLocal)
      [] id = "empty.geojson" -> Doc("geojson", LayerEmpty)
      [] OTHER                -> Doc("shp", RoadsUTM)

\* ---------------------------------------------------- read_vector_upload
ErrNoShp == "No .shp file found in uploaded ZIP."
ErrZip == "Error reading shapefile ZIP"
ErrGeoJSON == "Error reading GeoJSON"
ErrUnsupported == "Unsupported file type. Please upload a ZIP shapefile or GeoJSON."
ErrRoads == "Roads data is required. Upload or fetch roads first."
ErrParcels == "Parcels data is required. Upload parcels first."
ErrPlace == "Please enter a place name."
ErrOSM == "Error fetching OSM data"

\* os.listdir(tmpdir) filtered by endswith(".shp"): top-level entries only
shp_files(f) == {m \in f.members : m.top /\ m.ext = "shp"}

\* lines 50-53: tag a naive layer, reproject a declared one
normalize_crs_keep(gdf) == [exc |-> "", gdf |-> [gdf EXCEPT !.crs = WorkingEPSG]]

normalize_crs(gdf) ==
    IF gdf.crs = NoCRS
    THEN [exc |-> "", gdf |-> [gdf EXCEPT !.crs = WorkingEPSG]]
    ELSE IF CanReproject(gdf, WorkingEPSG)
         THEN [exc |-> "", gdf |-> to_crs(gdf, WorkingEPSG)]
         ELSE [exc |-> "CRSError", gdf |-> NullLayer]

\* ZipFile / extractall / listdir / gpd.read_file inside the scratch directory.
\* os.listdir returns the entries in arbitrary order, so shp_files[0] may be any
\* of the top-level .shp entries: the result is a set of possible outcomes.
read_zip(f) ==
    IF ~f.valid THEN {[err |-> ErrZip, picked |-> "", gdf |-> <<>>]}
    ELSE IF shp_files(f) = {} THEN {[err |-> ErrNoShp, picked |-> "", gdf |-> <<>>]}
    ELSE {[err |-> "", picked |-> m.stem, gdf |-> <<m.layer>>] : m \in shp_files(f)}

\* gpd.read_file(uploaded_file) on a GeoJSON / JSON document
read_doc(f) ==
    IF f.valid THEN [err |-> "", picked |-> "", gdf |-> <<f.layer>>]
    ELSE [err |-> ErrGeoJSON, picked |-> "", gdf |-> <<>>]

\* TemporaryDirectory.__exit__: the directory goes on every way out of the block
cleanup_on_success(scratch_dirs, d, err) ==
    IF err = "" THEN scratch_dirs \ {d} ELSE scratch_dirs

cleanup(scratch_dirs, d, err) == scratch_dirs \ {d}

\* ------------------------------------------------ fetch_roads_from_place
OSMEdges(place) == LayerLL

fetch_roads_from_place(place, net_ok) ==
    IF net_ok /\ CanReproject(OSMEdges(place), WorkingEPSG)
    THEN [err |-> "", gdf |-> <<to_crs(OSMEdges(place), WorkingEPSG)>>]
    ELSE [err |-> ErrOSM, gdf |-> <<>>]

\* -------------------------------------------- save_gdf_as_shapefile_zipped
Archive(kind, distance_m, gdf) ==
    [prefix |-> kind, distance_m |-> distance_m,
     parts |-> {"shp", "shx", "dbf", "prj", "cpg"}, rows |-> Len(gdf.features)]

\* ------------------------------------------------------------- widgets
buffer_choices == <<10, 50, 100, 200, 250>>
Choices == {buffer_choices[i] : i \in 1..Len(buffer_choices)}

Range(q) == {q[i] : i \in 1..Len(q)}

MultiValues ==
    {q \in UNION {[1..n -> Choices] : n \in 0..MaxSel} :
        \A i, j \in 1..Len(q) : i # j => q[i] # q[j]}

\* lines 162-163
with_selected(selected, multi) ==
    IF selected \in Range(multi) THEN multi ELSE <<selected>> \o multi

\* lines 173-178: "" when the run may proceed
run_guard_roads_only(roads, parcels) == IF roads = <<>> THEN ErrRoads ELSE ""

run_guard(roads, parcels) ==
    IF roads = <<>> THEN ErrRoads
    ELSE IF parcels = <<>> THEN ErrParcels
    ELSE ""

\* lines 284 and 292
should_export_always(gdf) == TRUE

should_export(gdf) == ~IsEmpty(gdf)

\* ===================================================== the script's state
VARIABLES
    \* widget state, kept by Streamlit between reruns
    uploaded_parcels, road_option, uploaded_roads, place_name,
    selected_buffer, multi_widget,
    \* one rerun of the script
    pc, clicked, parcels_gdf, roads_gdf, multi_select_buffers, results, idx,
    errs, exc, outcome, scratch, downloads, written,
    \* history kept for the properties
    src, parsed, fetched, mb, failed_at

widgets == <<uploaded_parcels, road_option, uploaded_roads, place_name,
             selected_buffer, multi_widget>>
vars == <<uploaded_parcels, road_option, uploaded_roads, place_name,
          selected_buffer, multi_widget,
          pc, clicked, parcels_gdf, roads_gdf, multi_select_buffers, results, idx,
          errs, exc, outcome, scratch, downloads, written,
          src, parsed, fetched, mb, failed_at>>

Places == {"", "Bengaluru, India"}

NoMb == [called |-> FALSE, exc |-> "", tried |-> 0, failed |-> FALSE, epsg |-> 0,
         crs_m |-> 0, buffered |-> FALSE]

NoErrs == [parcels |-> "", roads |-> "", run |-> ""]
NoSrc == [parcels |-> <<>>, roads |-> <<>>]
NoParsed == [parcels |-> "", roads |-> ""]

\* the script starts again from line 1: every local is unbound again
FreshRun(button) ==
    /\ pc' = "load_parcels"
    /\ clicked' = button
    /\ parcels_gdf' = <<>>
    /\ roads_gdf' = <<>>
    /\ multi_select_buffers' = <<>>
    /\ results' = <<>>
    /\ idx' = 0
    /\ errs' = NoErrs
    /\ exc' = ""
    /\ outcome' = "loading"
    /\ downloads' = {}
    /\ written' = <<>>
    /\ src' = NoSrc
    /\ parsed' = NoParsed
    /\ mb' = NoMb
    /\ failed_at' = 0
    /\ UNCHANGED scratch

Init ==
    /\ uploaded_parcels = NoFile
    /\ road_option = "osm"
    /\ uploaded_roads = NoFile
    /\ place_name = ""
    /\ selected_buffer = buffer_choices[3]
    /\ multi_widget = <<buffer_choices[3]>>
    /\ pc = "load_parcels"
    /\ clicked = "none"
    /\ parcels_gdf = <<>>
    /\ roads_gdf = <<>>
    /\ multi_select_buffers = <<>>
    /\ results = <<>>
    /\ idx = 0
    /\ errs = NoErrs
    /\ exc = ""
    /\ outcome = "loading"
    /\ scratch = {}
    /\ downloads = {}
    /\ written = <<>>
    /\ src = NoSrc
    /\ parsed = NoParsed
    /\ fetched = <<>>
    /\ mb = NoMb
    /\ failed_at = 0

\* ------------------------------------------------------------ UI events
\* Each event changes one widget and reruns the script.
UploadParcels(f) ==
    /\ pc = "idle"
    /\ f # uploaded_parcels
    /\ uploaded_parcels' = f
    /\ FreshRun("none")
    /\ UNCHANGED <<road_option, uploaded_roads, place_name, selected_buffer,
                   multi_widget, fetched>>

\* the widgets of the other branch are not drawn any more and lose their value
ChooseRoadOption(o) ==
    /\ pc = "idle"
    /\ o # road_option
    /\ road_option' = o
    /\ uploaded_roads' = NoFile
    /\ place_name' = ""
    /\ fetched' = <<>>
    /\ FreshRun("none")
    /\ UNCHANGED <<uploaded_parcels, selected_buffer, multi_widget>>

UploadRoads(f) ==
    /\ pc = "idle"
    /\ road_option = "upload"
    /\ f # uploaded_roads
    /\ uploaded_roads' = f
    /\ FreshRun("none")
    /\ UNCHANGED <<uploaded_parcels, road_option, place_name, selected_buffer,
                   multi_widget, fetched>>

EnterPlace(p) ==
    /\ pc = "idle"
    /\ road_option = "osm"
    /\ p # place_name
    /\ place_name' = p
    /\ fetched' = <<>>
    /\ FreshRun("none")
    /\ UNCHANGED <<uploaded_parcels, road_option, uploaded_roads, selected_buffer,
                   multi_widget>>

\* the multiselect's default is [selected_buffer]: a new default is a new widget
SelectBuffer(d) ==
    /\ pc = "idle"
    /\ d # selected_buffer
    /\ selected_buffer' = d
    /\ multi_widget' = <<d>>
    /\ FreshRun("none")
    /\ UNCHANGED <<uploaded_parcels, road_option, uploaded_roads, place_name, fetched>>

SetMulti(q) ==
    /\ pc = "idle"
    /\ q # multi_widget
    /\ multi_widget' = q
    /\ FreshRun("none")
    /\ UNCHANGED <<uploaded_parcels, road_option, uploaded_roads, place_name,
                   selected_buffer, fetched>>

ClickFetch ==
    /\ pc = "idle"
    /\ road_option = "osm"
    /\ FreshRun("fetch")
    /\ UNCHANGED <<widgets, fetched>>

ClickRun ==
    /\ pc = "idle"
    /\ FreshRun("run")
    /\ UNCHANGED <<widgets, fetched>>

\* --------------------------------------- read_vector_upload, as called
Layers == {"parcels", "roads"}

UploadOf(which) == IF which = "parcels" THEN uploaded_parcels ELSE uploaded_roads
LoadPc(which) == IF which = "parcels" THEN "load_parcels" ELSE "load_roads"
ZipPc(which) == IF which = "parcels" THEN "parcels_zip" ELSE "roads_zip"
AfterLoad(which) == IF which = "parcels" THEN "load_roads" ELSE "guard"

NoRead(err) == [err |-> err, picked |-> "", gdf |-> <<>>]

\* lines 50-54 and the assignment at line 122 / 140.  r is what the format
\* branch produced; an exception at line 53 ends the rerun.
ReturnFromLoad(which, r) ==
    LET n == IF r.gdf = <<>> THEN [exc |-> "", gdf |-> NullLayer]
             ELSE normalize_crs(r.gdf[1])
        value == IF r.gdf = <<>> \/ n.exc # "" THEN <<>> ELSE <<n.gdf>>
    IN  /\ parcels_gdf' = IF which = "parcels" THEN value ELSE parcels_gdf
        /\ roads_gdf' = IF which = "roads" THEN value ELSE roads_gdf
        /\ errs' = [errs EXCEPT ![which] = r.err]
        /\ src' = [src EXCEPT ![which] = r.gdf]
        /\ parsed' = [parsed EXCEPT ![which] = r.picked]
        /\ exc' = n.exc
        /\ IF n.exc # ""
           THEN pc' = "idle" /\ outcome' = "load_error"
           ELSE pc' = AfterLoad(which) /\ UNCHANGED outcome

\* lines 18-23 and 40-48: everything but the archive branch's body
ReadUpload(which) ==
    /\ pc = LoadPc(which)
    /\ which = "roads" => road_option = "upload"
    /\ LET id == UploadOf(which)
       IN  IF id = NoFile
           THEN ReturnFromLoad(which, NoRead("")) /\ UNCHANGED scratch
           ELSE IF File(id).ext = "zip"
           THEN /\ scratch' = scratch \cup {"upload"}
                /\ pc' = ZipPc(which)
                /\ UNCHANGED <<parcels_gdf, roads_gdf, errs, src, parsed, exc, outcome>>
           ELSE IF File(id).ext \in {"geojson", "json"}
           THEN ReturnFromLoad(which, read_doc(File(id))) /\ UNCHANGED scratch
           ELSE ReturnFromLoad(which, NoRead(ErrUnsupported)) /\ UNCHANGED scratch
    /\ UNCHANGED <<widgets, clicked, multi_select_buffers, results, idx, downloads,
                   written, fetched, mb, failed_at>>

\* lines 24-38: the body of the with block, and leaving it
ReadZip(which) ==
    /\ pc = ZipPc(which)
    /\ \E r \in read_zip(File(UploadOf(which))) :
          /\ ReturnFromLoad(which, r)
          /\ scratch' = cleanup(scratch, "upload", r.err)
    /\ UNCHANGED <<widgets, clicked, multi_select_buffers, results, idx, downloads,
                   written, fetched, mb, failed_at>>

\* lines 141-148: the place-name branch
FetchRoads ==
    /\ pc = "load_roads"
    /\ road_option = "osm"
    /\ IF clicked # "fetch"
       THEN UNCHANGED <<roads_gdf, errs, fetched>>
       ELSE IF place_name = ""
       THEN /\ errs' = [errs EXCEPT !.roads = ErrPlace]
            /\ UNCHANGED <<roads_gdf, fetched>>
       ELSE \E net_ok \in BOOLEAN :
              LET r == fetch_roads_from_place(place_name, net_ok)
              IN  /\ roads_gdf' = r.gdf
                  /\ errs' = [errs EXCEPT !.roads = r.err]
                  /\ fetched' = r.gdf
    /\ pc' = "guard"
    /\ UNCHANGED <<widgets, clicked, parcels_gdf, multi_select_buffers, results, idx,
                   exc, outcome, scratch, downloads, written, src, parsed, mb,
                   failed_at>>

\* lines 162-163 and 172-196
RunGuard ==
    /\ pc = "guard"
    /\ multi_select_buffers' = with_selected(selected_buffer, multi_widget)
    /\ IF clicked # "run"
       THEN /\ pc' = "idle"
            /\ outcome' = "norun"
            /\ UNCHANGED <<errs, exc, roads_gdf, parcels_gdf, idx>>
       ELSE IF run_guard(roads_gdf, parcels_gdf) # ""
       THEN /\ errs' = [errs EXCEPT !.run = run_guard(roads_gdf, parcels_gdf)]
            /\ pc' = "idle"
            /\ outcome' = "stopped"
            /\ UNCHANGED <<exc, roads_gdf, parcels_gdf, idx>>
       ELSE IF roads_gdf = <<>> \/ parcels_gdf = <<>>
       THEN \* None has no to_crs
            /\ exc' = "AttributeError"
            /\ pc' = "idle"
            /\ outcome' = "failed"
            /\ UNCHANGED <<errs, roads_gdf, parcels_gdf, idx>>
       ELSE IF ~CanReproject(roads_gdf[1], WorkingEPSG)
               \/ ~CanReproject(parcels_gdf[1], WorkingEPSG)
       THEN /\ exc' = "CRSError"
            /\ pc' = "idle"
            /\ outcome' = "failed"
            /\ UNCHANGED <<errs, roads_gdf, parcels_gdf, idx>>
       ELSE /\ roads_gdf' = <<to_crs(roads_gdf[1], WorkingEPSG)>>
            /\ parcels_gdf' = <<to_crs(parcels_gdf[1], WorkingEPSG)>>
            /\ pc' = "loop"
            /\ idx' = 1
            /\ outcome' = "pipeline"
            /\ UNCHANGED <<errs, exc>>
    /\ UNCHANGED <<widgets, clicked, results, scratch, downloads, written, src,
                   parsed, fetched, mb, failed_at>>

\* ------------------------------------------------ lines 250-255: the loop
MbLog(b) ==
    [called |-> TRUE, exc |-> b.exc, tried |-> b.utm.tried, failed |-> b.utm.failed,
     epsg |-> b.utm.epsg, crs_m |-> b.utm.gdf_m.crs, buffered |-> b.buffered]

Result(dist, b, c) ==
    [distance_m |-> dist, buffer |-> b.gdf, intersections |-> c.sub, count |-> c.count]

\* the loop with each distance in a try block of its own: a failing distance is
\* skipped and the next one is computed
BufferAndOverlayIsolated ==
    /\ pc = "loop"
    /\ \E geos_ok \in BOOLEAN :
         LET dist == multi_select_buffers[idx]
             b == make_buffer(roads_gdf[1], dist, geos_ok)
             c == count_intersecting_parcels(parcels_gdf[1], b.gdf)
         IN  /\ mb' = MbLog(b)
             /\ IF b.exc # ""
                THEN failed_at' = dist /\ UNCHANGED results
                ELSE results' = Append(results, Result(dist, b, c)) /\ UNCHANGED failed_at
             /\ IF idx < Len(multi_select_buffers)
                THEN idx' = idx + 1 /\ pc' = "loop" /\ UNCHANGED outcome
                ELSE IF b.exc = "" \/ results # <<>>
                THEN idx' = 1 /\ pc' = "res_buffer" /\ UNCHANGED outcome
                ELSE idx' = idx /\ pc' = "idle" /\ outcome' = "completed"
    /\ UNCHANGED <<widgets, clicked, parcels_gdf, roads_gdf, multi_select_buffers,
                   errs, exc, scratch, downloads, written, src, parsed, fetched>>

\* one iteration: make_buffer, count_intersecting_parcels, results.append.
\* An exception in either call leaves the script.
BufferAndOverlay ==
    /\ pc = "loop"
    /\ \E geos_ok \in BOOLEAN :
         LET dist == multi_select_buffers[idx]
             b == make_buffer(roads_gdf[1], dist, geos_ok)
             c == count_intersecting_parcels(parcels_gdf[1], b.gdf)
         IN  /\ mb' = MbLog(b)
             /\ IF b.exc # ""
                THEN /\ exc' = b.exc
                     /\ failed_at' = dist
                     /\ outcome' = "failed"
                     /\ pc' = "idle"
                     /\ UNCHANGED <<results, idx>>
                ELSE /\ results' = Append(results, Result(dist, b, c))
                     /\ IF idx < Len(multi_select_buffers)
                        THEN idx' = idx + 1 /\ pc' = "loop"
                        ELSE idx' = 1 /\ pc' = "res_buffer"
                     /\ UNCHANGED <<exc, failed_at, outcome>>
    /\ UNCHANGED <<widgets, clicked, parcels_gdf, roads_gdf, multi_select_buffers,
                   errs, scratch, downloads, written, src, parsed, fetched>>

\* ------------------------------------------- lines 279-300: results loop
LayerOf(kind, r) == IF kind = "buffer" THEN r.buffer ELSE r.intersections
ResPc(kind) == IF kind = "buffer" THEN "res_buffer" ELSE "res_inter"
SavePc(kind) == IF kind = "buffer" THEN "save_buffer" ELSE "save_inter"

\* after column B of results[idx]: the next result, or line 300
NextResult ==
    IF idx < Len(results)
    THEN idx' = idx + 1 /\ pc' = "res_buffer" /\ UNCHANGED outcome
    ELSE idx' = idx /\ pc' = "idle" /\ outcome' = "completed"

AfterColumn(kind) ==
    IF kind = "buffer"
    THEN pc' = "res_inter" /\ UNCHANGED <<idx, outcome>>
    ELSE NextResult

\* line 281 (with column A) and the test at line 284 / 292; entering
\* save_gdf_as_shapefile_zipped creates its scratch directory
Report(kind) ==
    /\ pc = ResPc(kind)
    /\ written' = IF kind = "buffer" THEN Append(written, results[idx].distance_m)
                  ELSE written
    /\ IF should_export(LayerOf(kind, results[idx]))
       THEN /\ scratch' = scratch \cup {"export"}
            /\ pc' = SavePc(kind)
            /\ UNCHANGED <<idx, outcome>>
       ELSE AfterColumn(kind) /\ UNCHANGED scratch
    /\ UNCHANGED <<widgets, clicked, parcels_gdf, roads_gdf, multi_select_buffers,
                   results, errs, exc, downloads, src, parsed, fetched, mb, failed_at>>

\* lines 97-104 and the download button; write_ok: gdf.to_file succeeds
Save(kind) ==
    /\ pc = SavePc(kind)
    /\ \E write_ok \in BOOLEAN :
         IF write_ok
         THEN /\ downloads' = downloads \cup
                    {Archive(kind, results[idx].distance_m, LayerOf(kind, results[idx]))}
              /\ scratch' = cleanup(scratch, "export", "")
              /\ AfterColumn(kind)
              /\ UNCHANGED exc
         ELSE /\ exc' = "WriteError"
              /\ scratch' = cleanup(scratch, "export", "WriteError")
              /\ pc' = "idle"
              /\ outcome' = "failed"
              /\ UNCHANGED <<downloads, idx>>
    /\ UNCHANGED <<widgets, clicked, parcels_gdf, roads_gdf, multi_select_buffers,
                   results, errs, written, src, parsed, fetched, mb, failed_at>>

\* ------------------------------------------------------------------ Next
Next ==
    \/ \E f \in FileIds \cup {NoFile} : UploadParcels(f)
    \/ \E o \in {"upload", "osm"} : ChooseRoadOption(o)
    \/ \E f \in FileIds \cup {NoFile} : UploadRoads(f)
    \/ \E p \in Places : EnterPlace(p)
    \/ \E d \in Choices : SelectBuffer(d)
    \/ \E q \in MultiValues : SetMulti(q)
    \/ ClickFetch
    \/ ClickRun
    \/ \E which \in Layers : ReadUpload(which)
    \/ \E which \in Layers : ReadZip(which)
    \/ FetchRoads
    \/ RunGuard
    \/ BufferAndOverlay
    \/ \E kind \in {"buffer", "intersection"} : Report(kind)
    \/ \E kind \in {"buffer", "intersection"} : Save(kind)

Spec == Init /\ [][Next]_vars

\* ----------------------------------- count_intersecting_parcels on its own
\* The overlay applied to parcel and buffer layers the pipeline never pairs
\* (an empty buffer layer, an empty buffer geometry, several buffer features).
Reversed(gdf) ==
    [crs |-> gdf.crs,
     features |-> [i \in 1..Len(gdf.features) |->
                     gdf.features[Len(gdf.features) + 1 - i]]]

DiscLayer(pts, r) ==
    [crs |-> WorkingEPSG, features |-> <<[id |-> 0, geom |-> [pts |-> pts, r |-> r]]>>]

OverlayParcels ==
    {ParcelsUTM, Reversed(ParcelsUTM), to_crs(LayerLL, WorkingEPSG),
     to_crs(LayerEmpty, WorkingEPSG), [LayerRaw EXCEPT !.crs = WorkingEPSG],
     to_crs(LayerSouth, WorkingEPSG), RoadsUTM}

OverlayBuffers ==
    {make_buffer(RoadsUTM, d, TRUE).gdf : d \in Choices}
    \cup {DiscLayer(UnionPoints(RoadsUTM), 10 * d) : d \in Choices}
    \cup {DiscLayer({}, 0),
          [crs |-> WorkingEPSG, features |-> <<>>],
          [crs |-> WorkingEPSG,
           features |-> <<[id |-> 0, geom |-> [pts |-> {A}, r |-> 500]],
                          [id |-> 1, geom |-> [pts |-> {<<A[1] + 100000, A[2]>>},
                                               r |-> 100]]>>]}

InitOverlay ==
    /\ uploaded_parcels = NoFile
    /\ road_option = "osm"
    /\ uploaded_roads = NoFile
    /\ place_name = ""
    /\ selected_buffer = buffer_choices[3]
    /\ multi_widget = <<buffer_choices[3]>>
    /\ pc = "overlay"
    /\ clicked = "none"
    /\ parcels_gdf \in {<<P>> : P \in OverlayParcels}
    /\ roads_gdf = <<>>
    /\ multi_select_buffers = <<>>
    /\ results \in {<<[distance_m |-> 0, buffer |-> B, intersections |-> NullLayer,
                       count |-> -1]>> : B \in OverlayBuffers}
    /\ idx = 1
    /\ errs = NoErrs
    /\ exc = ""
    /\ outcome = "pipeline"
    /\ scratch = {}
    /\ downloads = {}
    /\ written = <<>>
    /\ src = NoSrc
    /\ parsed = NoParsed
    /\ fetched = <<>>
    /\ mb = NoMb
    /\ failed_at = 0

OverlayCall ==
    /\ pc = "overlay"
    /\ LET c == count_intersecting_parcels(parcels_gdf[1], results[1].buffer)
       IN  results' = <<[results[1] EXCEPT !.intersections = c.sub, !.count = c.count]>>
    /\ pc' = "overlay_done"
    /\ UNCHANGED <<widgets, clicked, parcels_gdf, roads_gdf, multi_select_buffers, idx,
                   errs, exc, outcome, scratch, downloads, written, src, parsed,
                   fetched, mb, failed_at>>

NextOverlay == OverlayCall

SpecOverlay == InitOverlay /\ [][NextOverlay]_vars

\* ================================================================ claims
LayerVar(which) == IF which = "parcels" THEN parcels_gdf ELSE roads_gdf

LoaderErrors == {ErrNoShp, ErrZip, ErrGeoJSON, ErrUnsupported}

\* the same features, in the same order, at the same places on the ground
SameGround(s, g) ==
    /\ Len(g.features) = Len(s.features)
    /\ \A i \in 1..Len(s.features) :
          /\ g.features[i].id = s.features[i].id
          /\ {ToGround(g.crs, p) : p \in g.features[i].geom.pts}
               = {ToGround(s.crs, p) : p \in s.features[i].geom.pts}

\* C1: a layer returned by read_vector_upload is in EPSG:32643; a source
\* without a CRS is returned with its coordinates untouched and without an
\* error, a source with a declared CRS is returned reprojected (every feature
\* keeps its place on the ground).
C1_LoadedLayerInWorkingCRS ==
    \A which \in Layers :
        src[which] # <<>> =>
            LET s == src[which][1]
                g == LayerVar(which)
            IN  /\ g # <<>> => g[1].crs = WorkingEPSG
                /\ s.crs = NoCRS =>
                      /\ g # <<>>
                      /\ g[1].features = s.features
                      /\ errs[which] = ""
                /\ (s.crs # NoCRS /\ g # <<>>) => SameGround(s, g[1])

C1_Witness ==
    /\ src.parcels # <<>> /\ src.parcels[1].crs = NoCRS /\ parcels_gdf # <<>>
    /\ src.roads # <<>> /\ src.roads[1].crs = Geographic /\ roads_gdf # <<>>

\* C2: the EPSG code ensure_utm tries first is 32600 + zone (latitude >= 0) or
\* 32700 + zone, with zone = floor((longitude + 180) / 6) + 1 taken from the
\* longitude / latitude of the centroid of the layer, converted from the
\* working CRS to degrees.
ClaimedEpsg(gdf) ==
    LET ll == ToLonLat(gdf.crs, Centroid(gdf))
        zone == ((ll[1] + 1800) \div 60) + 1
    IN  IF ll[2] >= 0 THEN 32600 + zone ELSE 32700 + zone

C2_UtmFromDegrees ==
    (mb.called /\ mb.tried # 0) => mb.tried = ClaimedEpsg(roads_gdf[1])

\* C3: when the reprojection into the computed UTM code fails, ensure_utm does
\* not raise: it returns the layer in EPSG:3857 with the code 3857, and
\* make_buffer goes on to the union and buffer lines.
C3_FallbackNeverRaises ==
    (mb.called /\ mb.failed) =>
        /\ mb.exc # "CRSError"
        /\ mb.epsg = WebMercator
        /\ mb.crs_m = WebMercator
        /\ mb.buffered

C3_Witness ==
    /\ mb.called /\ mb.failed /\ mb.exc = "" /\ mb.epsg = WebMercator
    /\ results # <<>>

\* C4: count_intersecting_parcels returns the parcels that intersect some
\* buffer geometry, in their original order and unchanged, and their number;
\* an empty parcel layer or an empty buffer gives 0 and an empty layer.
Hits(P, B) ==
    {i \in 1..Len(P.features) :
        \E j \in 1..Len(B.features) :
            GeomIntersects(P.features[i].geom, B.features[j].geom)}

C4_OverlayIsTheIntersectingSubsequence ==
    pc = "overlay_done" =>
        LET P == parcels_gdf[1]
            B == results[1].buffer
            S == results[1].intersections
            n == results[1].count
            hits == Hits(P, B)
        IN  /\ n = Cardinality(hits)
            /\ Len(S.features) = n
            /\ S.crs = P.crs
            /\ \A i \in hits :
                  S.features[Cardinality({j \in hits : j <= i})] = P.features[i]
            /\ (IsEmpty(P) \/ \A j \in 1..Len(B.features) : B.features[j].geom.pts = {})
                  => (n = 0 /\ S.features = <<>>)

C4_Witness ==
    /\ pc = "overlay_done"
    /\ results[1].count = 2
    /\ Len(parcels_gdf[1].features) = 4
    /\ results[1].intersections.features[1].id = 12

\* C5: a zip upload gets the "no .shp" error exactly when the archive holds no
\* .shp file; an archive that holds one has it parsed, and the same one on
\* every load of the archive.
HasShp(f) == \E m \in f.members : m.ext = "shp"

LoadReturned(which) == errs[which] # "" \/ src[which] # <<>>

C5_NoShpErrorIffNoShp ==
    /\ \A which \in Layers :
          LET id == UploadOf(which)
          IN  (/\ which = "roads" => road_option = "upload"
               /\ id # NoFile
               /\ File(id).ext = "zip"
               /\ File(id).valid
               /\ LoadReturned(which))
              => /\ (errs[which] = ErrNoShp) <=> ~HasShp(File(id))
                 /\ HasShp(File(id)) => parsed[which] # ""
    /\ (/\ road_option = "upload"
        /\ uploaded_parcels = uploaded_roads
        /\ parsed.parcels # ""
        /\ parsed.roads # "")
       => parsed.parcels = parsed.roads

\* C6: a Run with the roads or the parcels layer absent reports the missing
\* input and stops before any buffer, overlay or export; the pipeline only
\* ever runs on two layers whose loads reported no error.
C6_MissingInputStopsRun ==
    /\ (/\ clicked = "run"
        /\ outcome \notin {"loading", "load_error"}
        /\ (roads_gdf = <<>> \/ parcels_gdf = <<>>))
       => /\ outcome = "stopped"
          /\ pc = "idle"
          /\ errs.run \in {ErrRoads, ErrParcels}
          /\ ~mb.called
          /\ results = <<>>
          /\ written = <<>>
          /\ downloads = {}
    /\ outcome \in {"pipeline", "failed", "completed"}
       => /\ roads_gdf # <<>>
          /\ parcels_gdf # <<>>
          /\ errs.parcels \notin LoaderErrors
          /\ errs.roads \notin LoaderErrors

C6_Witness ==
    /\ clicked = "run"
    /\ outcome = "stopped"
    /\ roads_gdf # <<>>
    /\ errs.parcels \in LoaderErrors
    /\ errs.run = ErrParcels

\* C7: a scratch directory exists only while its with block is executing; it
\* is gone on every way out of read_vector_upload and
\* save_gdf_as_shapefile_zipped.
C7_ScratchIsScoped ==
    /\ pc \in {"parcels_zip", "roads_zip"} => scratch = {"upload"}
    /\ pc \in {"save_buffer", "save_inter"} => scratch = {"export"}
    /\ pc \notin {"parcels_zip", "roads_zip", "save_buffer", "save_inter"}
          => scratch = {}

C7_Witness ==
    /\ pc = "idle"
    /\ exc = "WriteError"
    /\ downloads # {}
    /\ scratch = {}

\* C8: in a completed run every selected distance has a result, and each of
\* its two layers has a download archive exactly when the layer has features;
\* save_gdf_as_shapefile_zipped is only entered with a layer that has features.
HasDownload(kind, d) == \E a \in downloads : a.prefix = kind /\ a.distance_m = d

C8_ExportIffNonEmpty ==
    /\ outcome = "completed" =>
          /\ Len(results) = Len(multi_select_buffers)
          /\ \A i \in 1..Len(results) :
                /\ results[i].distance_m = multi_select_buffers[i]
                /\ \A kind \in {"buffer", "intersection"} :
                      HasDownload(kind, results[i].distance_m)
                        <=> ~IsEmpty(LayerOf(kind, results[i]))
    /\ \A kind \in {"buffer", "intersection"} :
          pc = SavePc(kind) => ~IsEmpty(LayerOf(kind, results[idx]))

C8_Witness ==
    /\ outcome = "completed"
    /\ Len(results) = 2
    /\ IsEmpty(results[1].intersections)
    /\ ~IsEmpty(results[2].intersections)
    /\ HasDownload("intersection", results[2].distance_m)
    /\ ~HasDownload("intersection", results[1].distance_m)

\* C9: with the place-name source chosen, roads fetched successfully and a
\* parcels layer loaded, a Run passes the roads-required check and works on the
\* fetched roads.
C9_FetchedRoadsReachRun ==
    (/\ clicked = "run"
     /\ road_option = "osm"
     /\ fetched # <<>>
     /\ parcels_gdf # <<>>
     /\ outcome \notin {"loading", "load_error"})
    => /\ errs.run # ErrRoads
       /\ roads_gdf = fetched
       /\ outcome \in {"pipeline", "failed", "completed"}

\* C10 as stated: when one distance fails in the loop, every other selected
\* distance is still computed and reported.
C10_SiblingsSurvive ==
    failed_at # 0 =>
        \A d \in Range(multi_select_buffers) \ {failed_at} :
            /\ \E i \in 1..Len(results) : results[i].distance_m = d
            /\ d \in Range(written)

\* C10 amended: the distances are processed in list order without isolation; a
\* failure at one distance ends the run there, nothing is reported or exported
\* for any distance, and only a run without a failure reports them all.
C10_FailureAbortsBatch ==
    /\ failed_at # 0 =>
          /\ pc = "idle"
          /\ outcome = "failed"
          /\ written = <<>>
          /\ downloads = {}
          /\ \E k \in 1..Len(multi_select_buffers) :
                /\ multi_select_buffers[k] = failed_at
                /\ Len(results) = k - 1
                /\ \A i \in 1..(k - 1) : results[i].distance_m = multi_select_buffers[i]
    /\ outcome = "completed" =>
          /\ failed_at = 0
          /\ written = multi_select_buffers
          /\ Len(results) = Len(multi_select_buffers)

C10_Witness ==
    /\ failed_at # 0
    /\ Len(results) >= 1
    /\ results[1].count >= 1
    /\ written = <<>>

====
